---- MODULE Spec2Model ----
(***************************************************************************)
(* A model of the bottom sheet (BottomSheet, the pointer-event variant     *)
(* that calls usePreventScroll) and of the reference-counted scroll lock   *)
(* (use-prevent-scroll.ts).                                                *)
(*                                                                         *)
(* Every action is one event of the page's single UI thread and contains   *)
(* the handler, the re-render its state updates cause, and the effects     *)
(* (cleanup, then setup) of that render: React flushes the updates of a    *)
(* discrete event and their effects before the next event is dispatched.   *)
(*                                                                         *)
(* Pixel quantities are integers.  The products wH * 0.05, wH * 0.45,      *)
(* wH * 0.5 and wH * 0.9 of animateTo are exact in IEEE doubles whenever    *)
(* the real product is an integer, which is the case for every viewport    *)
(* height of WHs (multiples of 20).                                        *)
(***************************************************************************)
EXTENDS Integers, Sequences, FiniteSets, TLC

\* ------------------------------------------------------------- bounds
\* |dragState.drag| is kept within 50 * MaxDragUnits px (a gesture with
\* several pointer-downs and no pointer-up accumulates drag without limit).
MaxDragUnits == 14
\* Number of independently mounted usePreventScroll callers in SpecHook.
NInst == 2
\* Length of the recorded prefix of the lock's call history.
MaxHist == 5

\* ---------------------------------------------------------- input sets
\* window.innerHeight
WHs == {1000, 1200}
\* clientY of pointer events
Ys == {50, 300, 500}
\* window.innerWidth - document.documentElement.clientWidth
SBs == {0, 15}
\* inline padding-right the page may carry on the document root
Paddings == {"", "8px"}
\* window scroll offsets <<scrollX, scrollY>>
Scrolls == {<<0, 0>>, <<7, 40>>}
TouchEvents == {"touchstart", "touchmove", "touchend"}
\* <<scrollTop, scrollHeight - clientHeight>> of the nested scrollable region
\* (mobile Safari reports offsets beyond either end while it bounces)
Regions == {<<0, 0>>, <<0, 60>>, <<30, 60>>, <<60, 60>>, <<-5, 60>>, <<65, 60>>}
\* pageY of touch events
PageYs == {100, 200}

Inst == 1..NInst

VARIABLES
    \* BottomSheet
    isDragging,         \* useState(false)
    blockHeight,        \* useState(0): the committed height
    dragState,          \* useRef({last, drag, from}).current
    height,             \* block.current.style.height, in px
    bsDuration,         \* block.current.style "--bs-duration"
    listener,           \* the render whose handleOnMove / handleMouseUp are
                        \* registered on document (the values they close over)
    sheetLock,          \* the sheet's usePreventScroll effect has a cleanup
    wH,                 \* window.innerHeight
    \* use-prevent-scroll.ts, module state and the page
    preventScrollCount,
    restore,            \* the stored closure: what it undoes
    paddingRight,       \* document.documentElement.style.paddingRight
    scroll,             \* <<window.scrollX, window.scrollY>>
    touchListeners,     \* touch listeners registered on document
    isIOSPlatform,      \* result of isIOS() on this browser
    inst,               \* other mounted callers of usePreventScroll
    \* safariMobilePreventScroll, the closure of the last activation
    scrollable,         \* let scrollable: Element
    lastY,              \* let lastY = 0
    activeElement,      \* document.activeElement
    transformed,        \* elements whose style.transform is translateY(-2000px)
    tev,                \* the last touch event: its input, the closure before
                        \* it and what the handler did
    \* history
    ev,                 \* the last event: its kind, input, the state before it
                        \* and the lock calls it made
    hist,               \* the first MaxHist effect/cleanup runs of the lock
    before              \* page state just before the last 0 -> 1 activation

vars == <<isDragging, blockHeight, dragState, height, bsDuration, listener,
          sheetLock, wH, preventScrollCount, restore, paddingRight, scroll,
          touchListeners, isIOSPlatform, inst, scrollable, lastY,
          activeElement, transformed, tev, ev, hist, before>>

sheetVars == <<isDragging, blockHeight, dragState, height, bsDuration,
               listener, sheetLock, wH>>
lockVars == <<preventScrollCount, restore, paddingRight, scroll,
              touchListeners>>
touchVars == <<scrollable, lastY, activeElement, transformed, tev>>

\* ------------------------------------------------------------- helpers
Max(a, b) == IF a >= b THEN a ELSE b
Abs(a) == IF a >= 0 THEN a ELSE -a

\* `${n}px`
Px(n) == ToString(n) \o "px"

\* wH * 0.45 and the like, pct in hundredths
Times(w, pct) == (w * pct) \div 100

\* ------------------------------------------------- the drag controller
MIN_BS_HEIGHT == 24

\* Variant: the upper end is exclusive
between_halfOpen(min, max, value) == value >= min /\ value < max

\* between(min, max, value): both ends inclusive
between(min, max, value) == value >= min /\ value <= max

\* Variant: no floor
withMinHeightLimit_noFloor(val) == val

\* withMinHeightLimit(val) = Math.max(MIN_BS_HEIGHT, val)
withMinHeightLimit(val) == Max(MIN_BS_HEIGHT, val)

\* Variant: the displacement is accumulated with the opposite sign
updateDragState_signFlipped(ds, to) ==
    LET deltaY == ds.last - to
    IN [ds EXCEPT !.last = to, !.drag = ds.drag + deltaY]

\* Variant: last is not updated
updateDragState_staleLast(ds, to) ==
    LET deltaY == ds.last - to
    IN [ds EXCEPT !.drag = ds.drag - deltaY]

\* updateDragState(to): deltaY = last - to; last = to; drag -= deltaY
updateDragState(ds, to) ==
    LET deltaY == ds.last - to
    IN [ds EXCEPT !.last = to, !.drag = ds.drag - deltaY]

\* Variant: outside the zones the sheet stays where it was released
animateTo_noSnapOutside(w, ds, bh) ==
    LET up == ds.from - ds.last > 0
        isTop == between(Times(w, 45), Times(w, 90), bh - ds.drag)
        isMiddle == between(Times(w, 5), Times(w, 45), bh - ds.drag)
    IN IF isMiddle /\ up THEN Times(w, 50)
       ELSE IF isTop /\ up THEN Times(w, 90)
       ELSE IF isTop /\ ~up THEN Times(w, 50)
       ELSE bh - ds.drag

\* Variant: the middle zone opens to mid-height whatever the direction
animateTo_middleAnyDirection(w, ds, bh) ==
    LET up == ds.from - ds.last > 0
        isTop == between(Times(w, 45), Times(w, 90), bh - ds.drag)
        isMiddle == between(Times(w, 5), Times(w, 45), bh - ds.drag)
    IN IF isMiddle THEN Times(w, 50)
       ELSE IF isTop /\ up THEN Times(w, 90)
       ELSE IF isTop /\ ~up THEN Times(w, 50)
       ELSE 0

\* Variant: a downward release in the top zone closes the sheet
animateTo_downFromTopCloses(w, ds, bh) ==
    LET up == ds.from - ds.last > 0
        isTop == between(Times(w, 45), Times(w, 90), bh - ds.drag)
        isMiddle == between(Times(w, 5), Times(w, 45), bh - ds.drag)
    IN IF isMiddle /\ up THEN Times(w, 50)
       ELSE IF isTop /\ up THEN Times(w, 90)
       ELSE 0

\* Variant: an upward release in the middle zone opens fully
animateTo_middleOpensTop(w, ds, bh) ==
    LET up == ds.from - ds.last > 0
        isTop == between(Times(w, 45), Times(w, 90), bh - ds.drag)
        isMiddle == between(Times(w, 5), Times(w, 45), bh - ds.drag)
    IN IF (isMiddle \/ isTop) /\ up THEN Times(w, 90)
       ELSE IF isTop /\ ~up THEN Times(w, 50)
       ELSE 0

\* Variant: a release above the top zone stays fully open
animateTo_aboveTopStaysOpen(w, ds, bh) ==
    LET up == ds.from - ds.last > 0
        isTop == between(Times(w, 45), Times(w, 90), bh - ds.drag)
        isMiddle == between(Times(w, 5), Times(w, 45), bh - ds.drag)
    IN IF isMiddle /\ up THEN Times(w, 50)
       ELSE IF isTop /\ up THEN Times(w, 90)
       ELSE IF isTop /\ ~up THEN Times(w, 50)
       ELSE IF bh - ds.drag > Times(w, 90) THEN Times(w, 90)
       ELSE 0

\* Variant: a gesture without net movement counts as upward
animateTo_zeroIsUp(w, ds, bh) ==
    LET up == ds.from - ds.last >= 0
        isTop == between(Times(w, 45), Times(w, 90), bh - ds.drag)
        isMiddle == between(Times(w, 5), Times(w, 45), bh - ds.drag)
    IN IF isMiddle /\ up THEN Times(w, 50)
       ELSE IF isTop /\ up THEN Times(w, 90)
       ELSE IF isTop /\ ~up THEN Times(w, 50)
       ELSE 0

\* animateTo(), reading window.innerHeight (w), dragState (ds) and the
\* blockHeight of the render the handler belongs to (bh)
animateTo(w, ds, bh) ==
    LET up == ds.from - ds.last > 0
        isTop == between(Times(w, 45), Times(w, 90), bh - ds.drag)
        isMiddle == between(Times(w, 5), Times(w, 45), bh - ds.drag)
    IN IF isMiddle /\ up THEN Times(w, 50)
       ELSE IF isTop /\ up THEN Times(w, 90)
       ELSE IF isTop /\ ~up THEN Times(w, 50)
       ELSE 0

\* ------------------------------------------------------ the scroll lock
\* The lock's module state and the page it acts on, as one value; did is
\* the list of lock calls made by the event being handled.
LockState ==
    [count |-> preventScrollCount, restore |-> restore, pad |-> paddingRight,
     scroll |-> scroll, touch |-> touchListeners, did |-> <<>>]

NoRestore == [kind |-> "unset", cur |-> "", scrollX |-> 0, scrollY |-> 0]

\* setStyle(document.documentElement, "paddingRight", value): writes the
\* style; the closure it returns writes back cur, the value read before.
setStyle(L, value) == [L EXCEPT !.pad = value]

\* restore = standardPreventScroll()
standardPreventScroll(L, sb) ==
    [setStyle(L, Px(sb)) EXCEPT
        !.restore = [kind |-> "standard", cur |-> L.pad,
                     scrollX |-> 0, scrollY |-> 0],
        !.did = Append(@, "standard")]

\* Variant: the scroll offset is read after window.scrollTo(0, 0)
safariMobilePreventScroll_savesAfterScroll(L, sb) ==
    [setStyle(L, Px(sb)) EXCEPT
        !.scroll = <<0, 0>>,
        !.touch = L.touch \cup TouchEvents,
        !.restore = [kind |-> "safari", cur |-> L.pad,
                     scrollX |-> 0, scrollY |-> 0],
        !.did = Append(@, "safari")]

\* restore = safariMobilePreventScroll(): saves the scroll offset, sets the
\* padding, scrolls to the top and adds the three touch listeners
safariMobilePreventScroll(L, sb) ==
    [setStyle(L, Px(sb)) EXCEPT
        !.scroll = <<0, 0>>,
        !.touch = L.touch \cup TouchEvents,
        !.restore = [kind |-> "safari", cur |-> L.pad,
                     scrollX |-> L.scroll[1], scrollY |-> L.scroll[2]],
        !.did = Append(@, "safari")]

\* restore(): the closure stored by the last 0 -> 1 activation (never
\* called before one was stored: the count is 0 until then)
invokeRestore(L) ==
    LET r == L.restore
        L1 == [L EXCEPT !.did = Append(@, "restore")]
    IN IF r.kind = "safari"
       THEN [L1 EXCEPT !.pad = r.cur,
                       !.touch = L.touch \ TouchEvents,
                       !.scroll = <<r.scrollX, r.scrollY>>]
       ELSE IF r.kind = "standard"
       THEN [L1 EXCEPT !.pad = r.cur]
       ELSE L1

\* Variant: the strategy is applied on every activation, not only on 0 -> 1
effectSetup_everyActivation(L, sb) ==
    LET L1 == [L EXCEPT !.count = L.count + 1, !.did = Append(@, "activate")]
    IN IF isIOSPlatform THEN safariMobilePreventScroll(L1, sb)
                        ELSE standardPreventScroll(L1, sb)

\* The effect of usePreventScroll when isDisabled is false
effectSetup(L, sb) ==
    LET L1 == [L EXCEPT !.count = L.count + 1, !.did = Append(@, "activate")]
    IN IF L1.count = 1
       THEN IF isIOSPlatform THEN safariMobilePreventScroll(L1, sb)
                             ELSE standardPreventScroll(L1, sb)
       ELSE L1

\* The cleanup returned by that effect
effectCleanup(L) ==
    LET L1 == [L EXCEPT !.count = L.count - 1, !.did = Append(@, "deactivate")]
    IN IF L1.count = 0 THEN invokeRestore(L1) ELSE L1

\* Variant: the cleanup also runs after an effect that returned early
usePreventScroll_alwaysCleanup(L, had, rerun, disabled, sb) ==
    LET L1 == IF rerun THEN effectCleanup(L) ELSE L
    IN IF rerun /\ ~disabled THEN effectSetup(L1, sb) ELSE L1

\* Variant: the effect returns no cleanup
usePreventScroll_noCleanup(L, had, rerun, disabled, sb) ==
    IF rerun /\ ~disabled THEN effectSetup(L, sb) ELSE L

\* One commit of a component that calls usePreventScroll({isDisabled}):
\* had says whether the previous run of the effect returned a cleanup,
\* rerun whether the effect's dependency [isDisabled] changed (or the
\* component mounts), disabled is the new flag.
usePreventScroll(L, had, rerun, disabled, sb) ==
    LET L1 == IF rerun /\ had THEN effectCleanup(L) ELSE L
    IN IF rerun /\ ~disabled THEN effectSetup(L1, sb) ELSE L1

\* ------------------------------------------------------- the document
\* HTML input types that do not cause the software keyboard to appear
NON_TEXT_INPUT_TYPES ==
    {"checkbox", "radio", "range", "color", "file", "image", "button",
     "submit", "reset"}

\* The page the touch handlers see.  An <input> is named by its type
\* attribute; "textarea" is a <textarea>, "editable" a content-editable
\* <div>, "item" a plain <div>, "list" a <div> with overflow: auto; "body"
\* has overflow: auto as well.
Inputs == NON_TEXT_INPUT_TYPES \cup {"text"}
Nodes == Inputs \cup {"textarea", "editable", "item", "list", "body", "html"}

documentElement == "html"
documentBody == "body"
\* document.scrollingElement (standards mode)
scrollingElement == "html"

\* node.parentElement, "null" above the root: "text", "editable" and
\* "item" are inside "list", every other element is a child of "body"
parentElement(n) ==
    CASE n = "html" -> "null"
      [] n = "body" -> "html"
      [] n \in {"text", "editable", "item"} -> "list"
      [] OTHER -> "body"

tagName(n) ==
    IF n \in Inputs THEN "input"
    ELSE IF n \in {"textarea", "body", "html"} THEN n ELSE "div"

isContentEditable(n) == n = "editable"

\* isScrollable(node): the computed overflow matches /(auto|scroll)/
isScrollable(n) == n \in {"list", "body"}

\* the while loop of getScrollParent
RECURSIVE scrollAncestor(_)
scrollAncestor(node) ==
    IF node # "null" /\ ~isScrollable(node)
    THEN scrollAncestor(parentElement(node))
    ELSE node

\* getScrollParent(node): the nearest scrollable proper ancestor, or
\* document.scrollingElement || document.documentElement
getScrollParent(node) ==
    LET start == IF isScrollable(node) THEN parentElement(node) ELSE node
        found == scrollAncestor(start)
    IN IF found # "null" THEN found ELSE scrollingElement

\* isInput(target); target.type is the name of an <input>
isInput(target) ==
    \/ tagName(target) = "input" /\ target \notin NON_TEXT_INPUT_TYPES
    \/ tagName(target) = "textarea"
    \/ isContentEditable(target)

\* -------------------------------------------------------------- history
\* The state an event started from, as far as the properties refer to it.
Pre ==
    [isDragging |-> isDragging, blockHeight |-> blockHeight,
     dragState |-> dragState, height |-> height, wH |-> wH,
     count |-> preventScrollCount, restore |-> restore,
     pad |-> paddingRight, scroll |-> scroll, touch |-> touchListeners]

Event(op, y, L) == [op |-> op, y |-> y, pre |-> Pre, did |-> L.did]

\* hist keeps the first MaxHist runs of the effect or of its cleanup
Record(L) ==
    IF L.did # <<>> /\ Len(hist) < MaxHist THEN Append(hist, L.did) ELSE hist

\* The last touch event
TouchEvent(op, target, y, r, prevented, workaround) ==
    [op |-> op, target |-> target, y |-> y, scrollTop |-> r[1],
     bottom |-> r[2],
     pre |-> [scrollable |-> scrollable, lastY |-> lastY,
              activeElement |-> activeElement],
     prevented |-> prevented, workaround |-> workaround]

\* The last event was not a touch event
NoTouch ==
    [op |-> "none", target |-> "null", y |-> 0, scrollTop |-> 0, bottom |-> 0,
     pre |-> [scrollable |-> "undefined", lastY |-> 0,
              activeElement |-> "body"],
     prevented |-> FALSE, workaround |-> FALSE]

\* Writes the lock's state back and keeps the history.  A call of
\* safariMobilePreventScroll creates the closure variables scrollable
\* (undefined) and lastY (0) that its three listeners share; the listeners
\* of the previous call were removed by its restore.
Commit(op, y, L) ==
    /\ LET fresh == \E k \in DOMAIN L.did : L.did[k] = "safari"
       IN /\ scrollable' = IF fresh THEN "undefined" ELSE scrollable
          /\ lastY' = IF fresh THEN 0 ELSE lastY
    /\ tev' = NoTouch
    /\ UNCHANGED <<activeElement, transformed>>
    /\ preventScrollCount' = L.count
    /\ restore' = L.restore
    /\ paddingRight' = L.pad
    /\ scroll' = L.scroll
    /\ touchListeners' = L.touch
    /\ ev' = Event(op, y, L)
    /\ hist' = Record(L)
    /\ before' = IF preventScrollCount = 0 /\ L.count = 1
                 THEN [pad |-> paddingRight, scroll |-> scroll]
                 ELSE before

\* ------------------------------------------------------ the sheet's events
\* onPointerDown on the handle: handleMouseDown of the current render, then
\* the render with isDragging = true, whose effects turn the lock on and
\* register the document listeners of that render.
handleMouseDown(y, sb) ==
    LET changed == ~isDragging
        L == usePreventScroll(LockState, sheetLock, changed, FALSE, sb)
    IN /\ dragState' = [dragState EXCEPT !.from = y, !.last = y]
       /\ isDragging' = TRUE
       /\ sheetLock' = TRUE
       /\ listener' = IF changed
                      THEN [isDragging |-> TRUE, blockHeight |-> blockHeight]
                      ELSE listener
       /\ UNCHANGED <<blockHeight, height, bsDuration, wH, isIOSPlatform, inst>>
       /\ Commit("down", y, L)

\* pointermove on document: the registered handleOnMove
handleOnMove(y) ==
    /\ IF ~listener.isDragging
       THEN UNCHANGED <<dragState, bsDuration, height>>
       ELSE /\ dragState' = updateDragState(dragState, y)
            /\ Abs(dragState'.drag) <= 50 * MaxDragUnits
            /\ bsDuration' = "0s"
            /\ height' = withMinHeightLimit(
                            listener.blockHeight - dragState'.drag)
    /\ UNCHANGED <<isDragging, blockHeight, listener, sheetLock, wH,
                   isIOSPlatform, inst>>
    /\ Commit("move", y, LockState)

\* Variant: drag is not reset
handleMouseUp_keepsDrag ==
    LET to == animateTo(wH, dragState, listener.blockHeight)
        changed == isDragging
        L == usePreventScroll(LockState, sheetLock, changed, TRUE, 0)
    IN /\ isDragging' = FALSE
       /\ bsDuration' = "0.35s"
       /\ height' = withMinHeightLimit(to)
       /\ blockHeight' = withMinHeightLimit(to)
       /\ dragState' = dragState
       /\ sheetLock' = IF changed THEN FALSE ELSE sheetLock
       /\ listener' = IF changed
                      THEN [isDragging |-> FALSE, blockHeight |-> blockHeight']
                      ELSE listener
       /\ UNCHANGED <<wH, isIOSPlatform, inst>>
       /\ Commit("up", 0, L)

\* pointerup on document: the registered handleMouseUp, then the render
\* with isDragging = false and the new blockHeight; the effects run only
\* when isDragging changed.
handleMouseUp ==
    LET to == animateTo(wH, dragState, listener.blockHeight)
        changed == isDragging
        L == usePreventScroll(LockState, sheetLock, changed, TRUE, 0)
    IN /\ isDragging' = FALSE
       /\ bsDuration' = "0.35s"
       /\ height' = withMinHeightLimit(to)
       /\ blockHeight' = withMinHeightLimit(to)
       /\ dragState' = [dragState EXCEPT !.drag = 0]
       /\ sheetLock' = IF changed THEN FALSE ELSE sheetLock
       /\ listener' = IF changed
                      THEN [isDragging |-> FALSE, blockHeight |-> blockHeight']
                      ELSE listener
       /\ UNCHANGED <<wH, isIOSPlatform, inst>>
       /\ Commit("up", 0, L)

\* The viewport is resized; animateTo reads window.innerHeight when called.
Resize(w) ==
    /\ w # wH
    /\ wH' = w
    /\ UNCHANGED <<isDragging, blockHeight, dragState, height, bsDuration,
                   listener, sheetLock, isIOSPlatform, inst>>
    /\ Commit("resize", 0, LockState)

\* ------------------------------------- other callers of usePreventScroll
Unmounted == [mounted |-> FALSE, isDisabled |-> TRUE, cleanup |-> FALSE]

\* A component calling usePreventScroll({isDisabled: d}) mounts
Mount(i, d, sb) ==
    /\ ~inst[i].mounted
    /\ inst' = [inst EXCEPT ![i] = [mounted |-> TRUE, isDisabled |-> d,
                                    cleanup |-> ~d]]
    /\ UNCHANGED <<sheetVars, isIOSPlatform>>
    /\ Commit("mount", i, usePreventScroll(LockState, FALSE, TRUE, d, sb))

\* It renders again with isDisabled = d
SetDisabled(i, d, sb) ==
    /\ inst[i].mounted
    /\ inst' = [inst EXCEPT ![i] = [mounted |-> TRUE, isDisabled |-> d,
                                    cleanup |-> ~d]]
    /\ UNCHANGED <<sheetVars, isIOSPlatform>>
    /\ Commit("flip", i, usePreventScroll(LockState, inst[i].cleanup,
                                          d # inst[i].isDisabled, d, sb))

\* It unmounts: the cleanup of its last effect runs
Unmount(i) ==
    /\ inst[i].mounted
    /\ inst' = [inst EXCEPT ![i] = Unmounted]
    /\ UNCHANGED <<sheetVars, isIOSPlatform>>
    /\ Commit("unmount", i, usePreventScroll(LockState, inst[i].cleanup,
                                             TRUE, TRUE, 0))

\* ------------------------------------------------------------- the page
\* The window is scrolled (by the user or by a script)
PageScroll(p) ==
    /\ p # scroll
    /\ UNCHANGED <<sheetVars, isIOSPlatform, inst>>
    /\ Commit("scroll", 0, [LockState EXCEPT !.scroll = p])

\* The page sets the inline padding-right of the document root
PagePadding(s) ==
    /\ s # paddingRight
    /\ UNCHANGED <<sheetVars, isIOSPlatform, inst>>
    /\ Commit("padding", 0, [LockState EXCEPT !.pad = s])

\* ------------------------------------------------- the touch listeners
\* What a touch handler leaves alone
TouchFrame(op, y) ==
    /\ UNCHANGED <<sheetVars, lockVars, isIOSPlatform, inst, hist, before>>
    /\ ev' = Event(op, y, LockState)

\* touchstart on document (capture): onTouchStart
onTouchStart(target, y) ==
    LET found == getScrollParent(target)
    IN /\ "touchstart" \in touchListeners
       /\ scrollable' = found
       /\ lastY' = IF found = documentElement /\ found = documentBody
                   THEN lastY
                   ELSE y
       /\ tev' = TouchEvent("touchstart", "null", y, <<0, 0>>, FALSE, FALSE)
       /\ UNCHANGED <<activeElement, transformed>>
       /\ TouchFrame("touchstart", y)

\* Variant: the window guard is missing
onTouchMove_noWindowGuard(y, r) ==
    LET window == FALSE
        scrollTop == r[1]
        bottom == r[2]
        atEdge == \/ scrollTop <= 0 /\ y > lastY
                  \/ scrollTop >= bottom /\ y < lastY
    IN /\ "touchmove" \in touchListeners
       /\ scrollable \in {"undefined", documentElement, documentBody}
            => r = <<0, 0>>
       /\ lastY' = IF window \/ bottom = 0 THEN lastY ELSE y
       /\ tev' = TouchEvent("touchmove", "null", y, r,
                            window \/ (bottom # 0 /\ atEdge), FALSE)
       /\ UNCHANGED <<scrollable, activeElement, transformed>>
       /\ TouchFrame("touchmove", y)

\* Variant: a region without overflow is treated like any other
onTouchMove_noFitReturn(y, r) ==
    LET window == scrollable \in {"undefined", documentElement, documentBody}
        scrollTop == r[1]
        bottom == r[2]
        atEdge == \/ scrollTop <= 0 /\ y > lastY
                  \/ scrollTop >= bottom /\ y < lastY
    IN /\ "touchmove" \in touchListeners
       /\ window => r = <<0, 0>>
       /\ lastY' = IF window THEN lastY ELSE y
       /\ tev' = TouchEvent("touchmove", "null", y, r, window \/ atEdge, FALSE)
       /\ UNCHANGED <<scrollable, activeElement, transformed>>
       /\ TouchFrame("touchmove", y)

\* touchmove on document (capture): onTouchMove.  y is the touch's pageY,
\* r the scrollTop and the overflow distance of scrollable, which the
\* handler reads only when scrollable is a nested element.
onTouchMove(y, r) ==
    LET window == scrollable \in {"undefined", documentElement, documentBody}
        scrollTop == r[1]
        bottom == r[2]
        atEdge == \/ scrollTop <= 0 /\ y > lastY
                  \/ scrollTop >= bottom /\ y < lastY
    IN /\ "touchmove" \in touchListeners
       /\ window => r = <<0, 0>>
       /\ lastY' = IF window \/ bottom = 0 THEN lastY ELSE y
       /\ tev' = TouchEvent("touchmove", "null", y, r,
                            window \/ (bottom # 0 /\ atEdge), FALSE)
       /\ UNCHANGED <<scrollable, activeElement, transformed>>
       /\ TouchFrame("touchmove", y)

\* Variant: the focus is not looked at
onTouchEnd_ignoresFocus(target) ==
    LET run == isInput(target)
    IN /\ "touchend" \in touchListeners
       /\ activeElement' = IF run THEN target ELSE activeElement
       /\ transformed' = IF run THEN transformed \cup {target} ELSE transformed
       /\ tev' = TouchEvent("touchend", target, 0, <<0, 0>>, run, run)
       /\ UNCHANGED <<scrollable, lastY>>
       /\ TouchFrame("touchend", 0)

\* touchend on document (capture): onTouchEnd.  The workaround prevents
\* the default, sets the transform, focuses the target and requests the
\* animation frame that clears the transform.
onTouchEnd(target) ==
    LET run == isInput(target) /\ target # activeElement
    IN /\ "touchend" \in touchListeners
       /\ activeElement' = IF run THEN target ELSE activeElement
       /\ transformed' = IF run THEN transformed \cup {target} ELSE transformed
       /\ tev' = TouchEvent("touchend", target, 0, <<0, 0>>, run, run)
       /\ UNCHANGED <<scrollable, lastY>>
       /\ TouchFrame("touchend", 0)

\* The next animation frame: the callbacks requested by onTouchEnd run
AnimationFrame ==
    /\ transformed # {}
    /\ transformed' = {}
    /\ tev' = NoTouch
    /\ UNCHANGED <<scrollable, lastY, activeElement>>
    /\ TouchFrame("frame", 0)

\* The focus moves (a tap whose default was not prevented, the keyboard,
\* a script)
Focus(n) ==
    /\ n # activeElement
    /\ activeElement' = n
    /\ tev' = NoTouch
    /\ UNCHANGED <<scrollable, lastY, transformed>>
    /\ TouchFrame("focus", 0)

\* -------------------------------------------------------- specifications
\* The state after <BottomSheet /> has mounted (main.tsx): the first render
\* (isDragging false, blockHeight 0) registered the document listeners, the
\* mount effect measured the 24 px block and committed it; the lock's
\* effect ran with isDisabled = true.
InitSheet ==
    /\ isDragging = FALSE
    /\ blockHeight = MIN_BS_HEIGHT
    /\ dragState = [last |-> 0, drag |-> 0, from |-> 0]
    /\ height = MIN_BS_HEIGHT
    /\ bsDuration = ""
    /\ listener = [isDragging |-> FALSE, blockHeight |-> 0]
    /\ sheetLock = FALSE
    /\ wH \in WHs

\* Before the first activation there is no closure; the page has the
\* focus on its body.
InitTouch ==
    /\ scrollable = "undefined"
    /\ lastY = 0
    /\ activeElement = "body"
    /\ transformed = {}
    /\ tev = NoTouch

InitLock ==
    /\ preventScrollCount = 0
    /\ restore = NoRestore
    /\ touchListeners = {}
    /\ isIOSPlatform \in BOOLEAN
    /\ inst = [i \in Inst |-> Unmounted]
    /\ hist = <<>>

Init ==
    /\ InitSheet
    /\ InitLock
    /\ InitTouch
    /\ paddingRight = ""
    /\ scroll = <<7, 40>>
    /\ before = [pad |-> paddingRight, scroll |-> scroll]
    /\ ev = [op |-> "init", y |-> 0, pre |-> Pre, did |-> <<>>]

Next ==
    \/ \E y \in Ys, sb \in SBs : handleMouseDown(y, sb)
    \/ \E y \in Ys : handleOnMove(y)
    \/ handleMouseUp
    \/ \E w \in WHs : Resize(w)

\* The sheet as main.tsx mounts it: the only caller of usePreventScroll
Spec == Init /\ [][Next]_vars

InitHook ==
    /\ InitSheet
    /\ InitLock
    /\ InitTouch
    /\ paddingRight \in Paddings
    /\ scroll \in Scrolls
    /\ before = [pad |-> paddingRight, scroll |-> scroll]
    /\ ev = [op |-> "init", y |-> 0, pre |-> Pre, did |-> <<>>]

NextHook ==
    \/ \E i \in Inst, d \in BOOLEAN, sb \in SBs : Mount(i, d, sb)
    \/ \E i \in Inst, d \in BOOLEAN, sb \in SBs : SetDisabled(i, d, sb)
    \/ \E i \in Inst : Unmount(i)
    \/ \E p \in Scrolls : PageScroll(p)
    \/ \E s \in Paddings : PagePadding(s)

\* Any number of components using the lock, on a page that scrolls and
\* restyles itself
SpecHook == InitHook /\ [][NextHook]_vars

\* Elements the focus moves to
Focusables == {"text", "body"}

NextTouch ==
    \/ handleMouseDown(300, 0)
    \/ handleMouseUp
    \/ \E target \in Nodes, y \in PageYs : onTouchStart(target, y)
    \/ \E y \in PageYs, r \in Regions : onTouchMove(y, r)
    \/ \E target \in Nodes : onTouchEnd(target)
    \/ AnimationFrame
    \/ \E n \in Focusables : Focus(n)

\* The mounted sheet in a viewport of one height
InitTouchSheet ==
    /\ Init
    /\ wH = 1000

\* The mounted sheet on a page that is touched while the sheet is being
\* dragged
SpecTouch == InitTouchSheet /\ [][NextTouch]_vars

\* ------------------------------------------------------------ properties
\* What the lock calls of one event or of the recorded history amount to
Applied(d) == \E k \in DOMAIN d : d[k] \in {"standard", "safari"}
Restored(d) == \E k \in DOMAIN d : d[k] = "restore"
Ops(h) == [k \in DOMAIN h |-> h[k][1]]
NRestores(h) == Cardinality({k \in DOMAIN h : Restored(h[k])})
NApplied(h) == Cardinality({k \in DOMAIN h : Applied(h[k])})
Enabled == {i \in Inst : inst[i].mounted /\ ~inst[i].isDisabled}

\* C1: a strategy is applied, and its restore closure stored, exactly when
\* the counter goes 0 -> 1, and the stored closure is invoked exactly when
\* it goes 1 -> 0; at other counter values the stored closure is left alone.
\* After activate, activate, deactivate the counter is 1 and no restore has
\* run; after one more deactivate it is 0 and exactly one restore has run.
C1_StrategyAtEdges ==
    /\ Applied(ev.did) <=> (ev.pre.count = 0 /\ preventScrollCount = 1)
    /\ Applied(ev.did) =>
          /\ restore.kind = IF isIOSPlatform THEN "safari" ELSE "standard"
          /\ restore.cur = ev.pre.pad
    /\ ~Applied(ev.did) => restore = ev.pre.restore
    /\ Restored(ev.did) <=> (ev.pre.count = 1 /\ preventScrollCount = 0)
    /\ (Len(hist) < MaxHist
          /\ Ops(hist) = <<"activate", "activate", "deactivate">>) =>
          /\ preventScrollCount = 1
          /\ NRestores(hist) = 0
          /\ NApplied(hist) = 1
    /\ (Len(hist) < MaxHist
          /\ Ops(hist) = <<"activate", "activate", "deactivate",
                           "deactivate">>) =>
          /\ preventScrollCount = 0
          /\ NRestores(hist) = 1
          /\ NApplied(hist) = 1

C1_Witness ==
    /\ Ops(hist) = <<"activate", "activate", "deactivate", "deactivate">>
    /\ Restored(ev.did)
    /\ preventScrollCount = 0

\* C2: the counter is never negative and equals the number of mounted
\* callers whose isDisabled is false (the sheet counts while it is dragged);
\* where the lock's activity shows on the page (touch interception), it is
\* active exactly when there is such a caller.
C2_CountIsEnabledCallers ==
    /\ preventScrollCount >= 0
    /\ preventScrollCount =
          Cardinality(Enabled) + (IF isDragging THEN 1 ELSE 0)
    /\ \A i \in Inst : inst[i].cleanup <=> i \in Enabled
    /\ isIOSPlatform =>
          ((touchListeners = TouchEvents) <=> (Enabled # {} \/ isDragging))

C2_Witness ==
    /\ ev.op = "flip"
    /\ ev.pre.count = 2
    /\ preventScrollCount = 1
    /\ Len(hist) >= 4

\* C3: on the sheet the counter is 1 exactly when isDragging is true; a
\* pointer-down that starts a gesture activates the lock, the pointer-up
\* that ends it deactivates it (and runs the restore), and a repeated
\* pointer-down or pointer-up makes no lock call at all.
C3_LockFollowsDragging ==
    /\ preventScrollCount = IF isDragging THEN 1 ELSE 0
    /\ sheetLock = isDragging
    /\ ev.op = "down" =>
          /\ isDragging
          /\ ev.pre.isDragging => ev.did = <<>>
          /\ ~ev.pre.isDragging => (Len(ev.did) = 2 /\ ev.did[1] = "activate"
                                    /\ Applied(ev.did))
    /\ ev.op = "up" =>
          /\ ~isDragging
          /\ ev.pre.isDragging => ev.did = <<"deactivate", "restore">>
          /\ ~ev.pre.isDragging => ev.did = <<>>
    /\ ev.op \in {"move", "resize"} => ev.did = <<>>

C3_Witness ==
    /\ ev.op = "down"
    /\ ev.pre.isDragging
    /\ ev.pre.dragState.drag # 0
    /\ preventScrollCount = 1

\* C4: when the counter returns to 0 the root's right padding is the value
\* it had just before the 0 -> 1 activation; if the touch interception
\* strategy was applied, the three touch listeners are gone and the window
\* scroll offset is the one saved at activation.  No touch listener is
\* registered while the counter is 0.
C4_RestoreIsRoundTrip ==
    /\ preventScrollCount = 0 => touchListeners = {}
    /\ (ev.pre.count = 1 /\ preventScrollCount = 0) =>
          /\ paddingRight = before.pad
          /\ restore.kind = "safari" =>
                (touchListeners = {} /\ scroll = before.scroll)
          /\ restore.kind = "standard" => scroll = ev.pre.scroll

C4_Witness ==
    /\ ev.pre.count = 1
    /\ preventScrollCount = 0
    /\ restore.kind = "safari"
    /\ scroll = <<7, 40>>
    /\ ev.pre.scroll # scroll
    /\ paddingRight = "8px"
    /\ ev.pre.pad # "8px"

\* The pointer-up that ends a gesture, the candidate height blockHeight -
\* drag and the direction it was released with, and the two zones as the
\* closed intervals [0.05 wH, 0.45 wH] and [0.45 wH, 0.9 wH]
Release == ev.op = "up" /\ ev.pre.isDragging
CandidateHeight == ev.pre.blockHeight - ev.pre.dragState.drag
ReleasedUp == ev.pre.dragState.from - ev.pre.dragState.last > 0
ReleasedDown == ev.pre.dragState.last > ev.pre.dragState.from
InMiddleZone(h, w) == 20 * h >= w /\ 20 * h <= 9 * w
InTopZone(h, w) == 20 * h >= 9 * w /\ 10 * h <= 9 * w

\* C5: after every pointer-move of an active drag, drag has grown by the
\* pointer's displacement and the rendered height is max(24, blockHeight -
\* drag), blockHeight being the height committed before the gesture; a
\* pointer-move outside a drag changes neither the height nor the drag state.
C5_HeightTracksDrag ==
    /\ isDragging => listener.blockHeight = blockHeight
    /\ ev.op = "move" =>
          IF ev.pre.isDragging
          THEN /\ dragState.drag =
                     ev.pre.dragState.drag + (ev.y - ev.pre.dragState.last)
               /\ dragState.last = ev.y
               /\ blockHeight = ev.pre.blockHeight
               /\ height = IF blockHeight - dragState.drag >= 24
                           THEN blockHeight - dragState.drag
                           ELSE 24
          ELSE /\ dragState = ev.pre.dragState
               /\ height = ev.pre.height

C5_Witness ==
    /\ ev.op = "move"
    /\ ev.pre.isDragging
    /\ ev.pre.dragState.drag # 0
    /\ height > 24
    /\ height # ev.pre.height
    /\ height # blockHeight

\* C6: every pointer-up commits 24, 0.5 wH or 0.9 wH, and renders it.
C6_ReleaseCommitsDetent ==
    ev.op = "up" =>
        /\ \/ blockHeight = 24
           \/ 2 * blockHeight = wH
           \/ 10 * blockHeight = 9 * wH
        /\ height = blockHeight
        /\ bsDuration = "0.35s"

C6_Witness ==
    /\ Release
    /\ 10 * blockHeight = 9 * wH
    /\ ev.pre.blockHeight # blockHeight
    /\ ev.pre.height # ev.pre.blockHeight

\* C7: the height committed by a release is the decision table's: middle
\* zone and up -> 0.5 wH; else top zone and up -> 0.9 wH; else top zone and
\* not up -> 0.5 wH; otherwise 0, committed as 24.
C7_SnapDecisionTable ==
    Release =>
        LET h == CandidateHeight
            target == IF InMiddleZone(h, wH) /\ ReleasedUp THEN wH \div 2
                      ELSE IF InTopZone(h, wH) /\ ReleasedUp
                      THEN (9 * wH) \div 10
                      ELSE IF InTopZone(h, wH) /\ ~ReleasedUp THEN wH \div 2
                      ELSE 0
        IN blockHeight = IF target = 0 THEN 24 ELSE target

C7_Witness ==
    /\ Release
    /\ InMiddleZone(CandidateHeight, wH)
    /\ ~ReleasedUp
    /\ blockHeight = 24
    /\ ev.pre.blockHeight > 24

\* C8 as stated: a release after a downward gesture that started from a
\* committed height in the top zone [0.45 wH, 0.9 wH) commits 0.5 wH.
C8_DownFromTopStartSettlesMid ==
    (/\ Release
     /\ ReleasedDown
     /\ 20 * ev.pre.blockHeight >= 9 * wH
     /\ 10 * ev.pre.blockHeight < 9 * wH) =>
        2 * blockHeight = wH

\* C8, amended: a release after a downward gesture commits max(24, 0.5 wH)
\* when the candidate height blockHeight - drag is in the top zone at
\* release; when the candidate has left the top zone downwards it commits
\* 24, as with wH = 1000, starting height 600 and the pointer going from
\* 300 to 500 (candidate 400).
C8_DownInTopZoneSettlesMid ==
    /\ (Release /\ ReleasedDown /\ InTopZone(CandidateHeight, wH)) =>
          blockHeight = IF wH \div 2 >= 24 THEN wH \div 2 ELSE 24
    /\ (Release /\ ReleasedDown /\ 20 * CandidateHeight < 9 * wH) =>
          blockHeight = 24
    /\ (/\ Release
        /\ wH = 1000
        /\ ev.pre.blockHeight = 600
        /\ ev.pre.dragState = [from |-> 300, last |-> 500, drag |-> 200]) =>
          blockHeight = 24

C8_Witness ==
    /\ Release
    /\ ReleasedDown
    /\ InTopZone(CandidateHeight, wH)
    /\ 10 * ev.pre.blockHeight = 9 * wH
    /\ CandidateHeight < ev.pre.blockHeight
    /\ 2 * blockHeight = wH

\* C9 as stated: with half-open zones a release at exactly 0.45 wH is in the
\* top zone only (released up it opens to 0.9 wH) and a release at exactly
\* 0.9 wH is in no zone and commits 0 (24).
C9_ZonesHalfOpen ==
    /\ (Release /\ 20 * CandidateHeight = 9 * wH /\ ReleasedUp) =>
          10 * blockHeight = 9 * wH
    /\ (Release /\ 10 * CandidateHeight = 9 * wH) => blockHeight = 24

\* C9, amended: the zones are the closed intervals [0.05 wH, 0.45 wH] and
\* [0.45 wH, 0.9 wH].  A release at exactly 0.45 wH is in both and commits
\* 0.5 wH in either direction (the middle zone is tested first); a release
\* at exactly 0.9 wH is in the top zone and commits 0.9 wH when up and
\* 0.5 wH otherwise; a release at exactly 0.05 wH is in the middle zone;
\* above 0.9 wH and below 0.05 wH a release is in no zone and commits 24.
C9_ZonesClosed ==
    Release =>
        LET h == CandidateHeight
        IN /\ 20 * h = 9 * wH => 2 * blockHeight = wH
           /\ 10 * h = 9 * wH =>
                 IF ReleasedUp THEN 10 * blockHeight = 9 * wH
                               ELSE 2 * blockHeight = wH
           /\ 20 * h = wH =>
                 IF ReleasedUp THEN 2 * blockHeight = wH
                               ELSE blockHeight = 24
           /\ (10 * h > 9 * wH \/ 20 * h < wH) => blockHeight = 24

C9_Witness ==
    /\ Release
    /\ 20 * CandidateHeight = 9 * wH
    /\ ReleasedUp
    /\ 2 * blockHeight = wH

\* C10: the rendered height and the committed height are at least 24 px in
\* every state after mount.
C10_HeightFloor ==
    /\ height >= 24
    /\ blockHeight >= 24

C10_Witness ==
    /\ ev.op = "move"
    /\ ev.pre.isDragging
    /\ blockHeight - dragState.drag < 0
    /\ height = 24

\* C13: a pointer-up delivered while no gesture is active leaves the
\* committed and the rendered height as they were.
C13_PointerUpOutsideGestureChangesNothing ==
    (ev.op = "up" /\ ~ev.pre.isDragging) =>
        /\ blockHeight = ev.pre.blockHeight
        /\ height = ev.pre.height

\* C14: every pointer-up sets drag to 0; no other event resets it (a
\* pointer-move adds the pointer's displacement, a pointer-down and a resize
\* keep it); drag is 0 whenever no gesture is active; every pointer-down
\* writes the pointer coordinate to from and last and leaves drag and
\* blockHeight unchanged.
C14_DragResetOnRelease ==
    /\ ~isDragging => dragState.drag = 0
    /\ ev.op = "up" => dragState.drag = 0
    /\ ev.op = "down" =>
          /\ dragState.from = ev.y
          /\ dragState.last = ev.y
          /\ dragState.drag = ev.pre.dragState.drag
          /\ blockHeight = ev.pre.blockHeight
    /\ ev.op = "move" =>
          dragState.drag = IF ev.pre.isDragging
                           THEN ev.pre.dragState.drag
                                  + (ev.y - ev.pre.dragState.last)
                           ELSE ev.pre.dragState.drag
    /\ ev.op = "resize" => dragState = ev.pre.dragState

C14_Witness ==
    /\ ev.op = "down"
    /\ ev.pre.isDragging
    /\ ev.pre.dragState.drag # 0
    /\ ev.pre.dragState.last # ev.y
    /\ dragState.drag = ev.pre.dragState.drag

\* The pointer-move of an active drag, and its direction
DragMove == ev.op = "move" /\ ev.pre.isDragging
MovedDown == ev.y > ev.pre.dragState.last
MovedUp == ev.y < ev.pre.dragState.last

\* C15 as stated: positive drag means dragged upward; a pointer-move
\* downward decreases drag and a move upward increases it.
C15_DownwardMoveDecreasesDrag ==
    /\ (DragMove /\ MovedDown) => dragState.drag < ev.pre.dragState.drag
    /\ (DragMove /\ MovedUp) => dragState.drag > ev.pre.dragState.drag

\* C15, amended: positive drag means dragged downward (sheet shrinking): a
\* pointer-move downward increases drag by the pointer's travel and does
\* not grow the sheet (it shrinks it unless it is at the 24 px floor), a
\* move upward decreases drag and does not shrink the sheet; the rendered
\* height of a drag is max(24, blockHeight - drag).
C15_DownwardMoveIncreasesDrag ==
    /\ isDragging =>
          height = IF blockHeight - dragState.drag >= 24
                   THEN blockHeight - dragState.drag ELSE 24
    /\ (DragMove /\ MovedDown) =>
          /\ dragState.drag > ev.pre.dragState.drag
          /\ height <= ev.pre.height
          /\ ev.pre.height > 24 => height < ev.pre.height
    /\ (DragMove /\ MovedUp) =>
          /\ dragState.drag < ev.pre.dragState.drag
          /\ height >= ev.pre.height
          /\ height > 24 => height > ev.pre.height

C15_Witness ==
    /\ DragMove
    /\ MovedDown
    /\ ev.pre.dragState.drag > 0
    /\ height > 24
    /\ height < ev.pre.height

\* What drag differs from last - from by
Slack(ds) == ds.drag - (ds.last - ds.from)

\* C16 as stated: at every point of an active gesture, a second
\* pointer-down included, drag equals last - from.
C16_DragIsLastMinusFrom ==
    isDragging => dragState.drag = dragState.last - dragState.from

\* C16, amended: the pointer-down that starts a gesture makes drag = last -
\* from (both 0) and every pointer-move keeps the difference between them,
\* so in a gesture with one pointer-down drag = last - from throughout; a
\* second pointer-down before the pointer-up sets from = last and keeps
\* drag.  When drag = last - from at release, the candidate height is
\* blockHeight + from - last and up holds exactly when it exceeds the
\* committed height; wH = 1000, height 600, from 500, last 300 gives
\* candidate 800 and commits 900.
C16_DragIsLastMinusFromSinceDown ==
    /\ (ev.op = "down" /\ ~ev.pre.isDragging) => Slack(dragState) = 0
    /\ (ev.op = "down" /\ ev.pre.isDragging) =>
          Slack(dragState) = ev.pre.dragState.drag
    /\ DragMove => Slack(dragState) = Slack(ev.pre.dragState)
    /\ (Release /\ Slack(ev.pre.dragState) = 0) =>
          /\ CandidateHeight = ev.pre.blockHeight + ev.pre.dragState.from
                                 - ev.pre.dragState.last
          /\ ReleasedUp <=> CandidateHeight > ev.pre.blockHeight
    /\ (/\ Release
        /\ wH = 1000
        /\ ev.pre.blockHeight = 600
        /\ ev.pre.dragState = [from |-> 500, last |-> 300, drag |-> -200]) =>
          (CandidateHeight = 800 /\ blockHeight = 900)

C16_Witness ==
    /\ Release
    /\ wH = 1000
    /\ ev.pre.blockHeight = 600
    /\ ev.pre.dragState = [from |-> 500, last |-> 300, drag |-> -200]
    /\ blockHeight = 900

\* The detent a height is: 0 closed, 1 mid, 2 top (3: none of them)
Detent(h, w) ==
    IF h = 24 THEN 0
    ELSE IF 2 * h = w THEN 1
    ELSE IF 10 * h = 9 * w THEN 2
    ELSE 3

\* C17 as stated: a release of a gesture that started from a committed
\* detent commits that detent or an adjacent one.
C17_AtMostOneDetentStep ==
    (Release /\ Detent(ev.pre.blockHeight, wH) # 3) =>
        /\ Detent(blockHeight, wH) # 3
        /\ Abs(Detent(blockHeight, wH) - Detent(ev.pre.blockHeight, wH)) <= 1

\* C17, amended: the step is bounded relative to the zone of the release
\* only: a release in the top zone commits mid or top, a release in the
\* middle zone commits closed or mid, a release in neither commits closed.
C17_StepRelativeToReleaseZone ==
    Release =>
        /\ InTopZone(CandidateHeight, wH) => Detent(blockHeight, wH) \in {1, 2}
        /\ InMiddleZone(CandidateHeight, wH) =>
              Detent(blockHeight, wH) \in {0, 1}
        /\ (~InTopZone(CandidateHeight, wH)
              /\ ~InMiddleZone(CandidateHeight, wH)) =>
              Detent(blockHeight, wH) = 0

C17_Witness ==
    /\ Release
    /\ Detent(ev.pre.blockHeight, wH) = 0
    /\ InTopZone(CandidateHeight, wH)
    /\ Detent(blockHeight, wH) = 2

\* C19: a release with the candidate height above 0.9 wH commits and
\* renders 24, whatever the direction; so does any net upward drag from the
\* committed top detent.
C19_AboveTopZoneCloses ==
    /\ (Release /\ 10 * CandidateHeight > 9 * wH) =>
          (blockHeight = 24 /\ height = 24)
    /\ (/\ Release
        /\ 10 * ev.pre.blockHeight = 9 * wH
        /\ ev.pre.dragState.drag < 0) => blockHeight = 24

C19_Witness ==
    /\ Release
    /\ 10 * ev.pre.blockHeight = 9 * wH
    /\ ev.pre.dragState.drag < 0
    /\ ReleasedUp
    /\ blockHeight = 24

TouchMove == tev.op = "touchmove"
TouchEnd == tev.op = "touchend"
\* the scrollable ancestor recorded before the event is a nested element
OnNested ==
    tev.pre.scrollable \notin {"undefined", documentElement, documentBody}

\* C11: while the touch listeners are registered, a touch-move with no
\* recorded scrollable ancestor, or with the document root or the body
\* recorded, has its default prevented; a touch-move on a recorded nested
\* region whose scrollTop is strictly between 0 and scrollHeight -
\* clientHeight does not, whichever way the touch moved.
C11_WindowAlwaysMiddleNever ==
    TouchMove =>
        /\ ~OnNested => tev.prevented
        /\ (OnNested /\ 0 < tev.scrollTop /\ tev.scrollTop < tev.bottom)
              => ~tev.prevented

\* A touch-move on the nested region, away from both ends, moving either
\* way, was left alone
C11_Witness ==
    /\ TouchMove /\ OnNested
    /\ 0 < tev.scrollTop /\ tev.scrollTop < tev.bottom
    /\ tev.y # tev.pre.lastY
    /\ ~tev.prevented

\* The elements the workaround is for: an input whose type is none of the
\* nine listed, a textarea, a content-editable element
TextAccepting(n) ==
    \/ /\ tagName(n) = "input"
       /\ n \notin {"checkbox", "radio", "range", "color", "file", "image",
                     "button", "submit", "reset"}
    \/ tagName(n) = "textarea"
    \/ isContentEditable(n)

\* C12: while the touch listeners are registered, a touch-end prevents the
\* default, translates the target off-screen and focuses it if and only if
\* the target is a text-accepting element that is not the focused element.
C12_WorkaroundIffUnfocusedTextInput ==
    TouchEnd =>
        /\ tev.workaround <=>
              (TextAccepting(tev.target) /\ tev.target # tev.pre.activeElement)
        /\ tev.workaround =>
              /\ tev.prevented
              /\ tev.target \in transformed
              /\ activeElement = tev.target
        /\ ~tev.workaround =>
              /\ ~tev.prevented
              /\ activeElement = tev.pre.activeElement

\* A touch-end on the text input that already had the focus did nothing
C12_Witness ==
    /\ TouchEnd
    /\ tev.target = "text"
    /\ tev.pre.activeElement = "text"
    /\ ~tev.workaround
    /\ "text" \notin transformed

\* C18: with a nested element recorded, a touch-move has its default
\* prevented if and only if the region's overflow distance is not 0 and
\* either scrollTop <= 0 and the touch is below the last recorded
\* coordinate, or scrollTop >= the overflow distance and the touch is above
\* it; with an overflow distance of 0 it is never prevented.
C18_NestedPreventedAtExtremities ==
    (TouchMove /\ OnNested) =>
        /\ tev.prevented <=>
              /\ tev.bottom # 0
              /\ \/ tev.scrollTop <= 0 /\ tev.y > tev.pre.lastY
                 \/ tev.scrollTop >= tev.bottom /\ tev.y < tev.pre.lastY
        /\ tev.bottom = 0 => ~tev.prevented

\* At the top of an overflowing nested region a downward touch-move was
\* prevented
C18_Witness ==
    /\ TouchMove /\ OnNested
    /\ tev.bottom > 0
    /\ tev.scrollTop = 0
    /\ tev.y > tev.pre.lastY
    /\ tev.prevented
====
